---- MODULE Spec2Model ----
(***************************************************************************)
(* Model of src/src/main.rs: the two HTTP handlers svg_handler and         *)
(* png_handler, the Error -> Response conversion, and the process-wide     *)
(* font database FONTDB (a std::sync::OnceLock<Database>).                 *)
(*                                                                         *)
(* Requests run concurrently (tokio worker threads); every request is a    *)
(* little sequential program over the stages of its handler.  The only     *)
(* shared state is FONTDB.                                                 *)
(*                                                                         *)
(* u32 values are kept at their width: a u32 (and the f32 intermediate of  *)
(* scale_to_height, which may exceed u32) is a pair <<hi, lo>> standing    *)
(* for hi * 2^16 + lo, because the integers of TLC stop at 2^31 - 1.       *)
(***************************************************************************)
EXTENDS Integers, Sequences, FiniteSets, TLC

(***************************************************************************)
(* Bounds of the model.                                                    *)
(***************************************************************************)
\* number of requests the concurrent specification runs
NumReq == 2
\* document sizes are multiples of 1/Den (f32 sizes with a fractional part)
Den == 2
\* small documents have width and height numerators 0 .. MaxNum
MaxNum == 3

(***************************************************************************)
(* Program constants.                                                      *)
(***************************************************************************)
HEIGHT == 100
PADDING == 20
FONT_FAMILY == "Noto Serif CJK JP"

Requests == 1 .. NumReq

(***************************************************************************)
(* Wide naturals: <<hi, lo>> = hi * Base + lo, 0 <= lo < Base.             *)
(***************************************************************************)
Base == 2 ^ 16

WNorm(hi, lo) == <<hi + (lo \div Base), lo % Base>>

WFromNat(n) == <<n \div Base, n % Base>>

WZero == <<0, 0>>

\* u32::MAX = 2^32 - 1
U32Max == <<Base - 1, Base - 1>>

WLe(a, b) == a[1] < b[1] \/ (a[1] = b[1] /\ a[2] <= b[2])

WLt(a, b) == a[1] < b[1] \/ (a[1] = b[1] /\ a[2] < b[2])

WAdd(a, b) == WNorm(a[1] + b[1], a[2] + b[2])

(***************************************************************************)
(* f32: a positive value is m * 2^e with a significand m of 24 bits         *)
(* (2^23 <= m < 2^24), zero is m = 0.  Every operation rounds its exact     *)
(* result to the nearest such value, ties to the even significand.         *)
(***************************************************************************)
\* the number of bits of n, 0 <= n < 2^31
BitLen(n) == IF n = 0 THEN 0 ELSE CHOOSE k \in 1 .. 31 : n \div 2 ^ (k - 1) = 1

F32Zero == [m |-> 0, e |-> 0]

\* the f32 nearest to exact * 2^e, where exact is m, or, when sticky, a value
\* strictly between m and m + 1 (m then has more than 24 bits)
F32Round(m, e, sticky) ==
    LET b == BitLen(m)
    IN  IF m = 0 THEN F32Zero
        ELSE IF b <= 24 THEN [m |-> m * 2 ^ (24 - b), e |-> e - (24 - b)]
        ELSE LET k    == b - 24
                 q    == m \div 2 ^ k
                 r    == m % 2 ^ k
                 half == 2 ^ (k - 1)
                 up   == r > half \/ (r = half /\ (sticky \/ q % 2 = 1))
             IN  IF up /\ q + 1 = 2 ^ 24
                 THEN [m |-> 2 ^ 23, e |-> e + k + 1]
                 ELSE [m |-> IF up THEN q + 1 ELSE q, e |-> e + k]

\* `n as f32` of an integer 0 <= n < 2^31
F32FromNat(n) == F32Round(n, 0, FALSE)

\* a * b: the exact product of the significands is hi * 2^24 + lo
F32Mul(a, b) ==
    LET ah  == a.m \div 2 ^ 12
        al  == a.m % 2 ^ 12
        bh  == b.m \div 2 ^ 12
        bl  == b.m % 2 ^ 12
        mid == ah * bl + al * bh
        low == (mid % 2 ^ 12) * 2 ^ 12 + al * bl
        lo  == low % 2 ^ 24
        hi  == ah * bh + mid \div 2 ^ 12 + low \div 2 ^ 24
        t   == 30 - BitLen(hi)
    IN  IF a.m = 0 \/ b.m = 0 THEN F32Zero
        ELSE F32Round(hi * 2 ^ t + lo \div 2 ^ (24 - t), a.e + b.e + 24 - t,
                      lo % 2 ^ (24 - t) # 0)

\* long division: quotient bits are added until the quotient has 26 bits
RECURSIVE DivBits(_, _, _, _)
DivBits(q, r, d, s) ==
    IF q >= 2 ^ 25 THEN [q |-> q, r |-> r, s |-> s]
    ELSE IF 2 * r >= d THEN DivBits(2 * q + 1, 2 * r - d, d, s + 1)
    ELSE DivBits(2 * q, 2 * r, d, s + 1)

\* a / b, b > 0
F32Div(a, b) ==
    LET res == DivBits(a.m \div b.m, a.m % b.m, b.m, 0)
    IN  IF a.m = 0 THEN F32Zero
        ELSE F32Round(res.q, a.e - b.e - res.s, res.r # 0)

\* `v.ceil() as u32`: the cast saturates at u32::MAX
F32CeilAsU32(v) ==
    IF v.m = 0 THEN WZero
    ELSE IF v.e >= 9 THEN U32Max
    ELSE IF v.e >= 0 THEN WNorm((v.m \div Base) * 2 ^ v.e, (v.m % Base) * 2 ^ v.e)
    ELSE IF -v.e >= 25 THEN <<0, 1>>
    ELSE WFromNat((v.m + 2 ^ (-v.e) - 1) \div 2 ^ (-v.e))

\* `v.floor() as u32`
F32FloorAsU32(v) ==
    IF v.m = 0 THEN WZero
    ELSE IF v.e >= 9 THEN U32Max
    ELSE IF v.e >= 0 THEN WNorm((v.m \div Base) * 2 ^ v.e, (v.m % Base) * 2 ^ v.e)
    ELSE IF -v.e >= 25 THEN WZero
    ELSE WFromNat(v.m \div 2 ^ (-v.e))

\* u32 addition: the mathematical sum, and whether it leaves u32
U32AddOverflows(a, b) == ~WLe(WAdd(a, b), U32Max)

U32AddWrapped(a, b) == LET s == WAdd(a, b) IN <<s[1] % Base, s[2]>>

(***************************************************************************)
(* Documents.  The translator (convert_to_svg) is a black box: a request   *)
(* carries the outcome of the translation and, when it succeeded, the      *)
(* document it produced: either text that is no SVG, or an SVG with the    *)
(* size (w / Den, h / Den).                                                *)
(***************************************************************************)
\* the largest width of the samples
BigW == 2 ^ 27 - 8

SmallNums == 0 .. MaxNum

WidthNums == SmallNums \cup {40 * Den}

HeightNums == SmallNums \cup {7 * Den, 20 * Den, 25 * Den, 100 * Den, 201 * Den}

\* text that is no SVG
Malformed == [svg |-> FALSE, w |-> 0, h |-> 0]

Size(w, h) == [svg |-> TRUE, w |-> w * Den, h |-> h * Den]

\* sizes whose scaled width is so large that f32 rounds the product or the
\* quotient of scale_to_height
WideDocs ==
    [svg : {TRUE}, w : {BigW * Den}, h : {Den, 7 * Den, 25 * Den, 100 * Den}]
        \cup {Size(173020, 33), Size(1000001, 7), Size(1048577, 1), Size(2000000, 100)}

Docs == {Malformed} \cup [svg : {TRUE}, w : WidthNums, h : HeightNums] \cup WideDocs

\* the documents of the concurrent specification
FewDocs == {Malformed, Size(40, 20)}

\* the body of a request, by what the Json<Request> extractor does with it:
\*   "json"       JSON with a string field latex
\*   "data"       JSON of another shape (the sample is {})
\*   "syntax"     text that is no JSON (the sample is: not json)
\*   "ctype"      a request without the header Content-Type: application/json
\*   "toolarge"   a body longer than the limit of the extractor
\*   "unreadable" a body whose reading fails (the connection breaks)
Bodies == {"json", "data", "syntax", "ctype", "toolarge", "unreadable"}

\* A request: its route, its body, whether convert_to_svg succeeds and the
\* document it then returns.  There is a translation only of a body the
\* extractor accepts, and a document only after a successful translation.
Inputs(docs) ==
    {in \in [route : {"svg", "png"}, body : Bodies, latexOk : BOOLEAN, doc : docs] :
        /\ in.body # "json" => ~in.latexOk
        /\ ~in.latexOk => in.doc = Malformed}

(***************************************************************************)
(* Errors and their responses.                                             *)
(***************************************************************************)
\* enum Error: each variant is #[error(transparent)], so to_string() is the
\* inner error's message
LaTeXError == [kind |-> "LaTeX", msg |-> "mathjax error"]

SvgParsingFailed == [kind |-> "Svg", msg |-> "SVG data parsing failed"]

SvgInvalidSize == [kind |-> "Svg", msg |-> "SVG has an invalid size"]

ScalingError == [kind |-> "Other", msg |-> "scaling Pixmap"]

MathPixmapError == [kind |-> "Other", msg |-> "creating new Pixmap to draw svg in"]

PaddingPixmapError == [kind |-> "Other", msg |-> "creating new Pixmap for padding"]

PngError == [kind |-> "Png", msg |-> "png encoding error"]

LaTeXPrefix == "LaTeX Error: "

InternalPrefix == "Internal Error: "

\* a response body is the sequence of the pieces of text it is made of
StartsWith(body, prefix) == Len(body) >= 1 /\ body[1] = prefix

\* impl IntoResponse for Error: the 500 branch builds `out` with the prefix
\* and then answers with self.to_string()
IntoResponse(err) ==
    LET msg == err.msg
    IN  IF err.kind = "LaTeX"
        THEN [status |-> 400, ctype |-> "text/plain", body |-> <<LaTeXPrefix, msg>>]
        ELSE [status |-> 500, ctype |-> "text/plain", body |-> <<err.msg>>]

OkResponse(ctype, what) == [status |-> 200, ctype |-> ctype, body |-> <<what>>]

NoResponse == [status |-> 0, ctype |-> "", body |-> <<>>]

\* the character U+0060 (back-quote), which a string of this module cannot
\* hold: a text is the concatenation of its pieces, with this piece read as
\* that one character
BackQuote == "U+0060"

\* the Json<Request> extractor refuses the body: axum answers with the
\* rejection and the handler is not called.  The text is the text of the
\* rejection, then, but for the missing content type, ": " and the message of
\* the error underneath (of serde_json for the sample body, of the body
\* reader otherwise).
JsonRejection(body) ==
    CASE body = "syntax" ->
           [status |-> 400, ctype |-> "text/plain",
            body |-> <<"Failed to parse the request body as JSON", ": ",
                       "expected ident at line 1 column 2">>]
      [] body = "data" ->
           [status |-> 422, ctype |-> "text/plain",
            body |-> <<"Failed to deserialize the JSON body into the target type", ": ",
                       "missing field ", BackQuote, "latex", BackQuote,
                       " at line 1 column 2">>]
      [] body = "ctype" ->
           [status |-> 415, ctype |-> "text/plain",
            body |-> <<"Expected request with ", BackQuote,
                       "Content-Type: application/json", BackQuote>>]
      [] body = "toolarge" ->
           [status |-> 413, ctype |-> "text/plain",
            body |-> <<"Failed to buffer the request body", ": ",
                       "length limit exceeded">>]
      [] body = "unreadable" ->
           [status |-> 400, ctype |-> "text/plain",
            body |-> <<"Failed to buffer the request body", ": ",
                       "error reading a body from connection">>]

(***************************************************************************)
(* Geometry.                                                               *)
(***************************************************************************)
\* Option::None, and a variable not assigned yet
None == [none |-> TRUE]

\* f32::round of n / Den, n >= 0: half away from zero
Round(n) == (2 * n + Den) \div (2 * Den)

Max(a, b) == IF a >= b THEN a ELSE b

\* TreeFromData without the check of the size
TreeFromDataAnySize(doc) ==
    IF ~doc.svg THEN [ok |-> FALSE, err |-> SvgParsingFailed]
    ELSE [ok |-> TRUE, size |-> doc]

\* Tree::from_data: text that is no SVG, or an SVG whose width or height is
\* not positive, is an error
TreeFromData(doc) ==
    IF ~doc.svg THEN [ok |-> FALSE, err |-> SvgParsingFailed]
    ELSE IF doc.w = 0 \/ doc.h = 0 THEN [ok |-> FALSE, err |-> SvgInvalidSize]
    ELSE [ok |-> TRUE, size |-> doc]

\* Size::to_int_size: each dimension rounded, at least 1 (the sizes of Docs
\* are below 2^31, where `as u32` changes nothing)
ToIntSize(size) == [width |-> Max(1, Round(size.w)), height |-> Max(1, Round(size.h))]

\* IntSize::from_wh
IntSizeFromWH(w, h) ==
    IF w = WZero \/ h = WZero THEN None ELSE [width |-> w, height |-> h]

\* ScaleToHeight with the new width rounded down
ScaleToHeightFloor(isize, newHeight) ==
    LET newWidth == F32Div(F32Mul(F32FromNat(newHeight), F32FromNat(isize.width)),
                           F32FromNat(isize.height))
    IN  IntSizeFromWH(F32FloorAsU32(newWidth), WFromNat(newHeight))

\* IntSize::scale_to_height: the new width is
\* (new_height as f32 * width as f32 / height as f32).ceil() as u32
ScaleToHeight(isize, newHeight) ==
    LET newWidth == F32Div(F32Mul(F32FromNat(newHeight), F32FromNat(isize.width)),
                           F32FromNat(isize.height))
    IN  IntSizeFromWH(F32CeilAsU32(newWidth), WFromNat(newHeight))

\* a pixmap row is at most i32::MAX bytes of 4 bytes per pixel
PixmapMaxWidth == WFromNat(2 ^ 29 - 1)

\* the allocator could not provide the memory: handle_alloc_error prints
\* "memory allocation of .. bytes failed" and aborts the process
AllocAbort == [abort |-> TRUE]

\* the outcomes of Pixmap::new: None for a zero dimension or a row too long;
\* otherwise vec![0; w * h * 4] is allocated, which gives the pixmap or,
\* when the allocator refuses (whatever the size: that is the machine's
\* decision), aborts the process
PixmapNew(w, h) ==
    IF w = WZero \/ h = WZero THEN {None}
    ELSE IF ~WLe(w, PixmapMaxWidth) THEN {None}
    ELSE {[width |-> w, height |-> h], AllocAbort}

\* PaddedLen with the padding counted once
PaddedLenOnce(n) == U32AddWrapped(WFromNat(PADDING), n)

\* PADDING * 2 + n in u32
PaddedLen(n) == U32AddWrapped(WFromNat(PADDING * 2), n)

PaddedLenOverflows(n) == U32AddOverflows(WFromNat(PADDING * 2), n)

(***************************************************************************)
(* The font database.                                                      *)
(***************************************************************************)
\* fontdb::Database::new(): no faces, the serif family is the default one
DatabaseNew == [fonts |-> "none", serif |-> "Times New Roman"]

LoadSystemFonts(fdb) == [fdb EXCEPT !.fonts = "system"]

SetSerifFamily(fdb, family) == [fdb EXCEPT !.serif = family]

\* the value the initialisation closure returns
FullDatabase == SetSerifFamily(LoadSystemFonts(DatabaseNew), FONT_FAMILY)

(***************************************************************************)
(* State.                                                                  *)
(***************************************************************************)
VARIABLES
    pc,         \* pc[r]: where request r is in its handler ("idle": its body
                \* is being read)
    input,      \* input[r]: the request and what its collaborators will answer
    stages,     \* stages[r]: the pipeline stages r has entered, in order
    tree,       \* tree[r]: the size of the parsed document (rtree.size)
    usedDb,     \* usedDb[r]: the database convert_text was given
    target,     \* target[r]: target_size
    mathPix,    \* mathPix[r]: the size of math_pix
    padded,     \* padded[r]: the size of background and where math_pix is drawn
    overflow,   \* overflow[r]: a u32 addition of r left u32
    error,      \* error[r]: the Err the handler of r returned
    response,   \* response[r]: the response of r
    fdb,        \* fdb[r]: the local database of the initialisation closure
    FONTDB,     \* the OnceLock: its state and, once complete, its value
    initRuns,   \* how many times the initialisation closure was entered
    fontScans   \* how many times load_system_fonts ran

vars == <<pc, input, stages, tree, usedDb, target, mathPix, padded, overflow,
          error, response, fdb, FONTDB, initRuns, fontScans>>

local == <<tree, usedDb, target, mathPix, padded, overflow>>

shared == <<fdb, FONTDB, initRuns, fontScans>>

\* convert_text has not run yet
NotYet == [notyet |-> TRUE]

NoInput == [route |-> "", body |-> "", latexOk |-> FALSE, doc |-> Malformed]

Init ==
    /\ pc = [r \in Requests |-> "idle"]
    /\ input = [r \in Requests |-> NoInput]
    /\ stages = [r \in Requests |-> <<>>]
    /\ tree = [r \in Requests |-> None]
    /\ usedDb = [r \in Requests |-> NotYet]
    /\ target = [r \in Requests |-> None]
    /\ mathPix = [r \in Requests |-> None]
    /\ padded = [r \in Requests |-> None]
    /\ overflow = [r \in Requests |-> FALSE]
    /\ error = [r \in Requests |-> None]
    /\ response = [r \in Requests |-> NoResponse]
    /\ fdb = [r \in Requests |-> None]
    /\ FONTDB = [state |-> "incomplete", value |-> None]
    /\ initRuns = 0
    /\ fontScans = 0

\* the request enters stage s
Enter(r, s) == stages' = [stages EXCEPT ![r] = Append(@, s)]

\* `?`: the handler returns Err(err), which axum turns into a response
Fail(r, err) ==
    /\ pc' = [pc EXCEPT ![r] = "done"]
    /\ error' = [error EXCEPT ![r] = err]
    /\ response' = [response EXCEPT ![r] = IntoResponse(err)]

Goto(r, where) ==
    /\ pc' = [pc EXCEPT ![r] = where]
    /\ UNCHANGED <<error, response>>

\* the process runs: no allocation has aborted it
Alive == \A q \in Requests : pc[q] # "oom"

\* an allocation of r aborts the process: r is at "oom" and unanswered, and
\* no request takes another step, wherever it is
ProcessAbort(r) ==
    /\ pc' = [pc EXCEPT ![r] = "oom"]
    /\ UNCHANGED <<error, response>>

(***************************************************************************)
(* The handlers.                                                           *)
(***************************************************************************)
\* the body of the request has been read: Json(req) is extracted and the
\* handler is called, or the extractor refuses the body and axum answers
\* with the rejection
Receive(r, in) ==
    /\ Alive
    /\ pc[r] = "idle"
    /\ input' = [input EXCEPT ![r] = in]
    /\ IF in.body = "json"
       THEN /\ pc' = [pc EXCEPT ![r] = "translate"]
            /\ UNCHANGED response
       ELSE /\ pc' = [pc EXCEPT ![r] = "done"]
            /\ response' = [response EXCEPT ![r] = JsonRejection(in.body)]
    /\ UNCHANGED <<stages, error, local, shared>>

\* convert_to_svg(req.latex)?, and the whole of svg_handler
Translate(r) ==
    /\ Alive
    /\ pc[r] = "translate"
    /\ Enter(r, "translate")
    /\ IF ~input[r].latexOk THEN Fail(r, LaTeXError)
       ELSE IF input[r].route = "svg"
       THEN /\ pc' = [pc EXCEPT ![r] = "done"]
            /\ response' = [response EXCEPT ![r] = OkResponse("image/svg+xml", "svg")]
            /\ UNCHANGED error
       ELSE Goto(r, "parse")
    /\ UNCHANGED <<input, local, shared>>

\* Parse without the `?`: the error of Tree::from_data is dropped
ParseUnchecked(r) ==
    /\ Alive
    /\ pc[r] = "parse"
    /\ Enter(r, "parse")
    /\ tree' = [tree EXCEPT ![r] = input[r].doc]
    /\ Goto(r, "resolve")
    /\ UNCHANGED <<input, usedDb, target, mathPix, padded, overflow, shared>>

\* Tree::from_data(&svg_data, &opt)?
Parse(r) ==
    /\ Alive
    /\ pc[r] = "parse"
    /\ Enter(r, "parse")
    /\ LET t == TreeFromData(input[r].doc)
       IN  IF t.ok
           THEN /\ tree' = [tree EXCEPT ![r] = t.size]
                /\ Goto(r, "resolve")
           ELSE /\ Fail(r, t.err)
                /\ UNCHANGED tree
    /\ UNCHANGED <<input, usedDb, target, mathPix, padded, overflow, shared>>

\* GetOrInit as an unsynchronised check: whoever finds the cell not complete
\* runs the closure
GetOrInitRacy(r) ==
    /\ Alive
    /\ pc[r] = "resolve"
    /\ Enter(r, "resolve")
    /\ IF FONTDB.state = "complete"
       THEN /\ Goto(r, "convert")
            /\ UNCHANGED FONTDB
       ELSE /\ FONTDB' = [FONTDB EXCEPT !.state = "running"]
            /\ Goto(r, "init_new")
    /\ UNCHANGED <<input, local, fdb, initRuns, fontScans>>

\* FONTDB.get_or_init(..): a complete cell is returned at once, an incomplete
\* one is claimed by the caller, who runs the closure, and a caller who finds
\* the closure running blocks
GetOrInit(r) ==
    /\ Alive
    /\ pc[r] = "resolve"
    /\ Enter(r, "resolve")
    /\ CASE FONTDB.state = "complete" ->
              /\ Goto(r, "convert")
              /\ UNCHANGED FONTDB
         [] FONTDB.state = "incomplete" ->
              /\ FONTDB' = [FONTDB EXCEPT !.state = "running"]
              /\ Goto(r, "init_new")
         [] FONTDB.state = "running" ->
              /\ Goto(r, "blocked")
              /\ UNCHANGED FONTDB
    /\ UNCHANGED <<input, local, fdb, initRuns, fontScans>>

\* the closure: let mut fdb = fontdb::Database::new();
InitNew(r) ==
    /\ Alive
    /\ pc[r] = "init_new"
    /\ fdb' = [fdb EXCEPT ![r] = DatabaseNew]
    /\ initRuns' = initRuns + 1
    /\ Goto(r, "init_load")
    /\ UNCHANGED <<input, stages, local, FONTDB, fontScans>>

\* the closure: fdb.load_system_fonts();
InitLoad(r) ==
    /\ Alive
    /\ pc[r] = "init_load"
    /\ fdb' = [fdb EXCEPT ![r] = LoadSystemFonts(@)]
    /\ fontScans' = fontScans + 1
    /\ Goto(r, "init_serif")
    /\ UNCHANGED <<input, stages, local, FONTDB, initRuns>>

\* the closure: fdb.set_serif_family(FONT_FAMILY);
InitSerif(r) ==
    /\ Alive
    /\ pc[r] = "init_serif"
    /\ fdb' = [fdb EXCEPT ![r] = SetSerifFamily(@, FONT_FAMILY)]
    /\ Goto(r, "init_store")
    /\ UNCHANGED <<input, stages, local, FONTDB, initRuns, fontScans>>

\* the closure returns fdb: the cell takes the value and becomes complete
InitStore(r) ==
    /\ Alive
    /\ pc[r] = "init_store"
    /\ FONTDB' = [state |-> "complete", value |-> fdb[r]]
    /\ fdb' = [fdb EXCEPT ![r] = None]
    /\ Goto(r, "convert")
    /\ UNCHANGED <<input, stages, local, initRuns, fontScans>>

\* a blocked caller of get_or_init is woken when the cell is complete
Wake(r) ==
    /\ Alive
    /\ pc[r] = "blocked"
    /\ FONTDB.state = "complete"
    /\ Goto(r, "convert")
    /\ UNCHANGED <<input, stages, local, shared>>

\* ConvertText that loads a missing font into the shared database
ConvertTextWriting(r) ==
    /\ Alive
    /\ pc[r] = "convert"
    /\ usedDb' = [usedDb EXCEPT ![r] = FONTDB.value]
    /\ FONTDB' = [FONTDB EXCEPT !.value = [FONTDB.value EXCEPT !.fonts = "system and more"]]
    /\ Goto(r, "scale")
    /\ UNCHANGED <<input, stages, tree, target, mathPix, padded, overflow, fdb, initRuns,
                   fontScans>>

\* tree.convert_text(<the database>); resvg::Tree::from_usvg(&tree)
ConvertText(r) ==
    /\ Alive
    /\ pc[r] = "convert"
    /\ usedDb' = [usedDb EXCEPT ![r] = FONTDB.value]
    /\ Goto(r, "scale")
    /\ UNCHANGED <<input, stages, tree, target, mathPix, padded, overflow, shared>>

\* original_size.to_int_size().scale_to_height(HEIGHT).context("scaling Pixmap")?
Scale(r) ==
    /\ Alive
    /\ pc[r] = "scale"
    /\ Enter(r, "scale")
    /\ LET ts == ScaleToHeight(ToIntSize(tree[r]), HEIGHT)
       IN  IF ts = None
           THEN /\ Fail(r, ScalingError)
                /\ UNCHANGED target
           ELSE /\ target' = [target EXCEPT ![r] = ts]
                /\ Goto(r, "rasterize")
    /\ UNCHANGED <<input, tree, usedDb, mathPix, padded, overflow, shared>>

\* Pixmap::new(target_size.width(), target_size.height()).context(..)?,
\* the two scale factors, and rtree.render(..) into math_pix
Rasterize(r) ==
    /\ Alive
    /\ pc[r] = "rasterize"
    /\ Enter(r, "rasterize")
    /\ \E pix \in PixmapNew(target[r].width, target[r].height) :
         IF pix = AllocAbort
         THEN /\ ProcessAbort(r)
              /\ UNCHANGED mathPix
         ELSE IF pix = None
         THEN /\ Fail(r, MathPixmapError)
              /\ UNCHANGED mathPix
         ELSE /\ mathPix' = [mathPix EXCEPT ![r] = pix]
              /\ Goto(r, "composite")
    /\ UNCHANGED <<input, tree, usedDb, target, padded, overflow, shared>>

\* Pixmap::new(PADDING * 2 + image.width(), PADDING * 2 + image.height())
\* .context(..)?, fill(Color::WHITE), draw_pixmap(PADDING, PADDING, image, ..);
\* math_pix is still allocated when the padded canvas is.
\* A u32 addition that overflows panics in a build with overflow checks and
\* wraps in one without.
Composite(r) ==
    /\ Alive
    /\ pc[r] = "composite"
    /\ Enter(r, "composite")
    /\ LET over == PaddedLenOverflows(mathPix[r].width)
                      \/ PaddedLenOverflows(mathPix[r].height)
       IN  /\ overflow' = [overflow EXCEPT ![r] = over]
           /\ \E checks \in (IF over THEN BOOLEAN ELSE {FALSE}) :
                IF checks
                THEN /\ Goto(r, "panicked")
                     /\ UNCHANGED padded
                ELSE \E bg \in PixmapNew(PaddedLen(mathPix[r].width),
                                         PaddedLen(mathPix[r].height)) :
                       IF bg = AllocAbort
                       THEN /\ ProcessAbort(r)
                            /\ UNCHANGED padded
                       ELSE IF bg = None
                       THEN /\ Fail(r, PaddingPixmapError)
                            /\ UNCHANGED padded
                       ELSE /\ padded' = [padded EXCEPT ![r] =
                                            [width |-> bg.width, height |-> bg.height,
                                             x |-> PADDING, y |-> PADDING]]
                            /\ Goto(r, "encode")
    /\ UNCHANGED <<input, tree, usedDb, target, mathPix, shared>>

\* image.encode_png()?, and the Ok response.  The encoder allocates a copy
\* of the canvas and its output: the allocator may refuse, which aborts the
\* process; otherwise whether the encoder fails is not decided by the request
Encode(r) ==
    /\ Alive
    /\ pc[r] = "encode"
    /\ Enter(r, "encode")
    /\ \E outcome \in {"png", "error", "abort"} :
         CASE outcome = "png" ->
                /\ pc' = [pc EXCEPT ![r] = "done"]
                /\ response' = [response EXCEPT ![r] = OkResponse("image/png", "png")]
                /\ UNCHANGED error
           [] outcome = "error" -> Fail(r, PngError)
           [] outcome = "abort" -> ProcessAbort(r)
    /\ UNCHANGED <<input, local, shared>>

\* the pcs at which a request is inside the synchronous initialisation closure
InClosure == {"init_new", "init_load", "init_serif", "init_store"}

\* the client goes away and the request is dropped.  The only await of a
\* request is the reading of its body by the extractor: the handlers have
\* none, so a handler that was called runs to its response.
Abort(r) ==
    /\ Alive
    /\ pc[r] = "idle"
    /\ pc' = [pc EXCEPT ![r] = "aborted"]
    /\ UNCHANGED <<input, stages, error, response, local, shared>>

\* the steps of the handler of request r
Run(r) ==
    \/ Translate(r)
    \/ Parse(r)
    \/ GetOrInit(r)
    \/ InitNew(r)
    \/ InitLoad(r)
    \/ InitSerif(r)
    \/ InitStore(r)
    \/ Wake(r)
    \/ ConvertText(r)
    \/ Scale(r)
    \/ Rasterize(r)
    \/ Composite(r)
    \/ Encode(r)

(***************************************************************************)
(* Spec: NumReq concurrent requests over a few documents.                  *)
(***************************************************************************)
Next ==
    \E r \in Requests :
        \/ \E in \in Inputs(FewDocs) : Receive(r, in)
        \/ Run(r)
        \/ Abort(r)

Spec == Init /\ [][Next]_vars

\* the steps of r inside get_or_init: the closure, which is synchronous
\* code on a running thread, and the wake-up of a waiter by the cell
Progress(r) == InitNew(r) \/ InitLoad(r) \/ InitSerif(r) \/ InitStore(r) \/ Wake(r)

\* a thread inside get_or_init that can take a step eventually takes one
FairSpec == Spec /\ \A r \in Requests : WF_vars(Progress(r))

(***************************************************************************)
(* PipeSpec: request 1 over every document of Docs, next to a request 2    *)
(* for the sample document or a document of height 0.                      *)
(***************************************************************************)
SampleInput == [route |-> "png", body |-> "json", latexOk |-> TRUE, doc |-> Size(40, 20)]

FlatInput == [route |-> "png", body |-> "json", latexOk |-> TRUE, doc |-> Size(1, 0)]

PipeNext ==
    \/ \E in \in Inputs(Docs) : Receive(1, in)
    \/ \E in \in {SampleInput, FlatInput} : Receive(2, in)
    \/ \E r \in {1, 2} : Run(r) \/ Abort(r)

PipeSpec == Init /\ [][PipeNext]_vars

(***************************************************************************)
(* Properties.                                                             *)
(***************************************************************************)
Done(r) == pc[r] = "done"

Failed(r) == Done(r) /\ error[r] # None

\* r has come back from get_or_init with a reference to the database
PastGetOrInit(r) == pc[r] = "convert" \/ usedDb[r] # NotYet

\* C1: under every interleaving the initialisation closure (create the
\* database, load the system fonts, set the serif family) runs at most once,
\* and exactly once as soon as a request has come back from get_or_init;
\* the system fonts are scanned as often as the closure runs.
C1_InitOnce ==
    /\ initRuns <= 1
    /\ fontScans <= initRuns
    /\ Cardinality({r \in Requests : pc[r] \in InClosure}) <= 1
    /\ \A r \in Requests :
         PastGetOrInit(r) =>
            /\ initRuns = 1
            /\ fontScans = 1
            /\ FONTDB.state = "complete"

\* two requests reached get_or_init before the database existed: one runs the
\* closure, the other one is blocked
C1_Witness ==
    \E r1, r2 \in Requests :
        /\ pc[r1] = "init_store"
        /\ pc[r2] = "blocked"
        /\ initRuns = 1

\* C2, safety: convert_text is only ever given the complete database
C2_NeverIncomplete ==
    \A r \in Requests :
        /\ usedDb[r] # NotYet => usedDb[r] = FullDatabase
        /\ pc[r] = "convert" => FONTDB = [state |-> "complete", value |-> FullDatabase]
        /\ pc[r] = "blocked" => fdb[r] = None

\* C2, safety: a blocked request stays blocked until the database is complete,
\* and never enters the closure
C2_BlockedStep ==
    \A r \in Requests :
        pc[r] = "blocked" =>
            /\ pc'[r] \in {"blocked", "convert"}
            /\ pc'[r] = "convert" => FONTDB.state = "complete"
            /\ initRuns' = initRuns \/ initRuns = 0

\* C2: a request that reaches get_or_init while another request runs the
\* closure waits for it; it never resolves text against an incomplete
\* database and never starts a second initialisation; and every waiting
\* request eventually leaves the wait.
C2_WaitForInit ==
    /\ []C2_NeverIncomplete
    /\ [][C2_BlockedStep]_vars
    /\ \A r \in Requests : (pc[r] = "blocked") ~> (pc[r] # "blocked")

\* the allocation of a pixmap or of the encoder failed in the handler of r
AllocationFailed(r) == pc[r] = "oom"

\* C3: a request has status 400 and a body starting with "LaTeX Error: "
\* exactly when its handler failed in the translator; every other failure of
\* a handler (SVG parsing, scaling, pixmap allocation, PNG encoding) has
\* status 500, also the allocation the allocator refuses; no failure, of a
\* handler or of the extractor, has status 200, and a request that did not
\* fail has it.
C3_StatusOfErrors ==
    \A r \in Requests :
      /\ error[r] # None => Done(r)
      /\ AllocationFailed(r) => response[r].status = 500
      /\ Done(r) =>
            /\ (response[r].status = 400 /\ StartsWith(response[r].body, LaTeXPrefix))
                  <=> error[r] = LaTeXError
            /\ error[r] = LaTeXError <=> (input[r].body = "json" /\ ~input[r].latexOk)
            /\ (Failed(r) /\ error[r] # LaTeXError) => response[r].status = 500
            /\ response[r].status = 200 <=> (input[r].body = "json" /\ error[r] = None)

\* C4: every 500 response has the body "Internal Error: " followed by the
\* message of the error.
C4_InternalPrefix ==
    \A r \in Requests :
        (Done(r) /\ response[r].status = 500) =>
            response[r].body = <<InternalPrefix, error[r].msg>>

(***************************************************************************)
(* Exact arithmetic on wide naturals, for the statements about sizes.      *)
(***************************************************************************)
\* a * k for a small k (k * Base stays below 2^31)
WMulSmall(a, k) == WNorm(a[1] * k, a[2] * k)

\* floor(a / d) for a small divisor d (d * Base stays below 2^31)
WDivFloor(a, d) ==
    LET q1 == a[1] \div d
        t  == (a[1] % d) * Base + a[2]
    IN  <<q1, t \div d>>

WRem(a, d) == ((a[1] % d) * Base + a[2]) % d

\* ceil(a / d)
WDivCeil(a, d) ==
    IF WRem(a, d) = 0 THEN WDivFloor(a, d) ELSE WAdd(WDivFloor(a, d), <<0, 1>>)

\* round(a / d), halves away from zero
WDivRound(a, d) == WDivFloor(WAdd(WMulSmall(a, 2), WFromNat(d)), 2 * d)

\* C5 as claimed: the width of the rasterized image is
\* round(w * 100 / h), computed from the un-rounded size (w, h).
C5_WidthFromExactSize ==
    \A r \in Requests :
        mathPix[r] # None =>
            mathPix[r].width = WDivRound(WMulSmall(WFromNat(tree[r].w), 100), tree[r].h)

\* the f32 arithmetic is off the exact quotient by less than 2^-22 of it
F32Slack(c) == WAdd(<<0, 1>>, WDivFloor(WDivFloor(c, 2 ^ 11), 2 ^ 11))

\* C5, amended: with W = max(1, round(w)) and H = max(1, round(h)) the
\* integer-rounded size, the width n of the rasterized image is the ceiling
\* of 100 * W / H evaluated in f32: it is ceil(100 * W / H) whenever
\* 100 * W < 2^24, and otherwise differs from it by at most
\* 1 + ceil(100 * W / H) / 2^22; the size (40, 20) gives the image
\* (200, 100), and the size (173020, 33), whose f32 quotient rounds down to
\* 524303.0, the width 524303 and not 524304.
C5_WidthFromRoundedSize ==
    \A r \in Requests :
        mathPix[r] # None =>
            LET W == Max(1, Round(tree[r].w))
                H == Max(1, Round(tree[r].h))
                n == mathPix[r].width
                c == WDivCeil(WMulSmall(WFromNat(W), 100), H)
            IN  /\ W <= (2 ^ 24 - 1) \div 100 => n = c
                /\ WLe(n, WAdd(c, F32Slack(c)))
                /\ WLe(c, WAdd(n, F32Slack(c)))
                /\ tree[r] = Size(40, 20) =>
                      mathPix[r] = [width |-> WFromNat(200), height |-> WFromNat(100)]
                /\ tree[r] = Size(173020, 33) => n = WFromNat(524303)

\* a document with a fractional width above 1 was rasterized, and so was
\* the document of size (40, 20)
C5_Witness ==
    \E r1, r2 \in Requests :
        /\ mathPix[r1] # None
        /\ tree[r1].w % Den # 0
        /\ tree[r1].w > Den
        /\ mathPix[r2] # None
        /\ tree[r2] = Size(40, 20)

\* C6: in every PNG request answered 200 the math image is 100 pixels high,
\* the padded canvas is (width of the math image + 40, 140), and the math
\* image is drawn at (20, 20) and lies inside the padded canvas.
C6_PaddedSize ==
    \A r \in Requests :
        (Done(r) /\ response[r].status = 200 /\ input[r].route = "png") =>
            /\ mathPix[r] # None /\ padded[r] # None
            /\ mathPix[r].height = WFromNat(100)
            /\ padded[r].width = WAdd(mathPix[r].width, WFromNat(40))
            /\ padded[r].height = WFromNat(140)
            /\ padded[r].x = 20 /\ padded[r].y = 20
            /\ WLe(WAdd(WFromNat(padded[r].x), mathPix[r].width), padded[r].width)
            /\ WLe(WAdd(WFromNat(padded[r].y), mathPix[r].height), padded[r].height)

\* a PNG request for a document wider than the sample was answered 200
C6_Witness ==
    \E r \in Requests :
        /\ Done(r)
        /\ response[r].status = 200
        /\ input[r].route = "png"
        /\ ~WLe(mathPix[r].width, WFromNat(200))

ZeroSized(size) == size.width = WZero \/ size.height = WZero

SizeErrors == {SvgInvalidSize, ScalingError}

\* the last stage r has entered
LastStage(r) == IF stages[r] = <<>> THEN "" ELSE stages[r][Len(stages[r])]

\* r is a PNG request whose translation gave an SVG document
HasDocument(r) ==
    input[r].route = "png" /\ input[r].body = "json" /\ input[r].latexOk /\ input[r].doc.svg

ZeroDimension(doc) == doc.w = 0 \/ doc.h = 0

\* round(w * 100 / h) = 0 for a size with w, h > 0
RoundsToZero(doc) ==
    /\ doc.w > 0 /\ doc.h > 0
    /\ WDivRound(WMulSmall(WFromNat(doc.w), 100), doc.h) = WZero

C8_NoOverflow ==
    \A r \in Requests :
        /\ ~overflow[r]
        /\ pc[r] # "panicked"
        /\ ~(pc[r] = "oom" /\ LastStage(r) = "composite")
        /\ mathPix[r] # None =>
              /\ WLe(WAdd(WFromNat(40), mathPix[r].width), U32Max)
              /\ WLe(WAdd(WFromNat(40), mathPix[r].height), U32Max)
        /\ (Failed(r) /\ LastStage(r) = "composite") =>
              /\ error[r] = PaddingPixmapError
              /\ response[r].status = 500

\* the value of the cell is nothing before the initialisation has finished and
\* the fully initialised database after it
C9_CellValue ==
    /\ FONTDB.state \in {"incomplete", "running", "complete"}
    /\ FONTDB.state = "complete" => FONTDB.value = FullDatabase
    /\ FONTDB.state # "complete" => FONTDB.value = None

\* only the two steps of the one-time initialisation write the cell: the
\* claim of the incomplete cell and the store of the closure's result
C9_OnlyInitWrites ==
    FONTDB' # FONTDB =>
        /\ FONTDB.state # "complete"
        /\ \E r \in Requests :
             \/ /\ pc[r] = "resolve" /\ pc'[r] = "init_new"
                /\ FONTDB' = [state |-> "running", value |-> None]
             \/ /\ pc[r] = "init_store" /\ pc'[r] = "convert"
                /\ FONTDB' = [state |-> "complete", value |-> FullDatabase]

\* C9: in every reachable state, whatever requests were aborted, the font
\* database is uninitialised or the fully initialised value; it never changes
\* once complete, and no step but the one-time initialisation writes it.
C9_ReadOnlyAfterInit ==
    /\ []C9_CellValue
    /\ [][C9_OnlyInitWrites]_vars

\* a request was aborted after the database was complete and another went on
C9_Witness ==
    \E r1, r2 \in Requests :
        /\ pc[r1] = "aborted"
        /\ pc[r2] = "scale"
        /\ FONTDB.state = "complete"

StageOrder ==
    <<"translate", "parse", "resolve", "scale", "rasterize", "composite", "encode">>

IsPrefix(s, t) == Len(s) <= Len(t) /\ \A i \in 1 .. Len(s) : s[i] = t[i]

\* the stages run in the fixed order, and svg_handler has the first one only
C10_Order ==
    \A r \in Requests :
        /\ IsPrefix(stages[r], StageOrder)
        /\ input[r].route = "svg" => Len(stages[r]) <= 1
        /\ Failed(r) =>
              \/ error[r] = LaTeXError /\ stages[r] = SubSeq(StageOrder, 1, 1)
              \/ error[r] \in {SvgParsingFailed, SvgInvalidSize}
                   /\ stages[r] = SubSeq(StageOrder, 1, 2)
              \/ error[r] = ScalingError /\ stages[r] = SubSeq(StageOrder, 1, 4)
              \/ error[r] = MathPixmapError /\ stages[r] = SubSeq(StageOrder, 1, 5)
              \/ error[r] = PaddingPixmapError /\ stages[r] = SubSeq(StageOrder, 1, 6)
              \/ error[r] = PngError /\ stages[r] = SubSeq(StageOrder, 1, 7)

\* the translation and the parsing of request r both succeed
ReachesResolve(in) ==
    in.body = "json" /\ in.route = "png" /\ in.latexOk /\ TreeFromData(in.doc).ok

\* a finished request runs no further stage, and a step of a request that is
\* no PNG request with a good translation and a good document leaves the
\* font database as it is
C10_Frame ==
    \A r \in Requests :
        /\ Done(r) => (stages'[r] = stages[r] /\ pc'[r] = pc[r])
        /\ (pc'[r] # pc[r] /\ ~ReachesResolve(input'[r])) =>
              UNCHANGED <<FONTDB, initRuns, fontScans, fdb>>
        /\ (pc'[r] \in InClosure \/ fdb'[r] # None) => ReachesResolve(input'[r])

\* C10: the stages of a request run in the order translate, parse, resolve,
\* scale, rasterize, composite, encode, and the first failing stage is the
\* last one; so only a PNG request whose translation and parsing succeeded
\* initialises the font database, and every other request leaves it unchanged.
C10_StagesAndFrame ==
    /\ []C10_Order
    /\ [][C10_Frame]_vars

\* a PNG request failed in the parsing and the database is still uninitialised
\* although another request has been answered too
C10_Witness ==
    \E r1, r2 \in Requests :
        /\ Failed(r1) /\ stages[r1] = <<"translate", "parse">>
        /\ Done(r2) /\ input[r2].route = "svg" /\ response[r2].status = 200
        /\ FONTDB.state = "incomplete"

====
